---------------------------- MODULE Spec2Model ----------------------------
(***************************************************************************)
(* Finite automata of src/automata.rs: the three builders, the acceptance  *)
(* engine is_accepted and the structural verifier model_check, as a state  *)
(* machine.  An automaton is a petgraph DiGraph<State, Transition>: nodes  *)
(* in insertion order (node index 0 is the first node added), edges in     *)
(* insertion order.  Node indices are 0-based as in the source.  The       *)
(* callers are modelled too: any caller of the library (Spec), a caller    *)
(* making call after call on one built automaton (SequenceSpec), and main  *)
(* with the diagram exporter visualize_automaton (MainSpec).               *)
(***************************************************************************)
EXTENDS Integers, Sequences, FiniteSets, TLC

VARIABLES
    automaton,      \* the Automaton handed to the operations (never written)
    op,             \* the operation called: "none", "is_accepted", "model_check"
    pc,             \* "idle", the running loop, "done" (returned) or "panic"
    property,       \* model_check's property argument ("" outside model_check)
    input,          \* is_accepted's input, a sequence of chars
    pos,            \* number of chars of input the outer for loop has taken
    current_state,  \* is_accepted's current_state
    stack,          \* Dfs.stack (top = last element) / Bfs.stack (front = first)
    discovered,     \* Dfs.discovered / Bfs.discovered
    reachable,      \* the HashSet reachable of the all_states_reachable arm
    visits,         \* the nodes the traversal's next() has returned, in order
    cursor,         \* position of the node_indices() loop of the last two arms
    result,         \* the returned bool (read when pc = "done")
    main_pc,        \* where the caller is: "caller" (any caller of the library)
                    \* or main's "visualize", "model_checking", "training",
                    \* "evaluating", "returned"
    index,          \* position of main's loop over automata (0-based)
    count,          \* turns done of the caller's current loop of calls
    files,          \* the file system: file name -> lines of the file
    io,             \* what the last export's file operations did: "none",
                    \* "create_failed", "write_failed", "ok"
    exported,       \* the last visualize_automaton's return: "none", "Ok", "Err"
    main_result,    \* main's return: "none" (running), "Ok", "Err"
    ran             \* the <<index, phase>> pairs main has started work on

\* the caller's state
callerVars == <<main_pc, index, count, files, io, exported, main_result, ran>>

vars == <<automaton, op, pc, property, input, pos, current_state, stack,
          discovered, reachable, visits, cursor, result, main_pc, index,
          count, files, io, exported, main_result, ran>>

----------------------------------------------------------------------------
(* Bounds of the model. *)

\* longest input tried on the three built automata
MaxLen == 6
\* crafted automata have at most this many nodes and edges together
MaxSize == 4
\* longest input tried on a crafted automaton
MaxCraftedLen == 3

----------------------------------------------------------------------------
(* Data model: State, Transition, Automaton. *)

\* the chars of the model: the two symbols the builders use and one other char
Symbols == {"a", "b"}
Chars == Symbols \cup {"x"}

State(name, is_accepting) == [name |-> name, is_accepting |-> is_accepting]

\* one edge of the DiGraph: endpoints and its Transition weight
Edge(source, target, symbol) ==
    [source |-> source, target |-> target, symbol |-> symbol]

\* DiGraph::add_node / DiGraph::add_edge: both append in insertion order
add_node(g, state) == [g EXCEPT !.nodes = Append(@, state)]
add_edge(g, source, target, symbol) ==
    [g EXCEPT !.edges = Append(@, Edge(source, target, symbol))]

EmptyGraph == [nodes |-> <<>>, edges |-> <<>>]

node_count(g) == Len(g.nodes)
node_indices(g) == 0 .. (node_count(g) - 1)

\* automaton[node]: the State weight of a node (index out of bounds panics;
\* callers guard with node \in node_indices(g))
NodeWeight(g, node) == g.nodes[node + 1]

RECURSIVE Reverse(_)
Reverse(s) == IF s = <<>> THEN <<>> ELSE Append(Reverse(Tail(s)), Head(s))

RECURSIVE SelectSource(_, _)
SelectSource(es, node) ==
    IF es = <<>> THEN <<>>
    ELSE IF Head(es).source = node
         THEN <<Head(es)>> \o SelectSource(Tail(es), node)
         ELSE SelectSource(Tail(es), node)

\* edges enumerating every edge of the graph, whatever its source
edges_AllEdges(g, node) == Reverse(g.edges)

\* automaton.edges(node): the outgoing edges of node.  petgraph's Graph keeps
\* a per-node linked list that add_edge prepends to, so the enumeration runs
\* from the edge added last to the edge added first.
edges(g, node) == Reverse(SelectSource(g.edges, node))

\* graph.neighbors(node), as Dfs and Bfs use it: the targets in edges() order
neighbors(g, node) ==
    LET es == edges(g, node) IN [i \in 1 .. Len(es) |-> es[i].target]

----------------------------------------------------------------------------
(* The three builders. *)

\* build_simple_automaton with the edge leaving S1 labelled 'a' instead of 'b'
build_simple_automaton_WrongLabel ==
    LET g0 == add_node(EmptyGraph, State("S0", FALSE))
        g1 == add_node(g0, State("S1", FALSE))
        g2 == add_node(g1, State("S2", TRUE))
        g3 == add_edge(g2, 0, 1, "a")
        g4 == add_edge(g3, 1, 2, "a")
        g5 == add_edge(g4, 2, 0, "a")
    IN  add_edge(g5, 2, 1, "b")

build_simple_automaton ==
    LET g0 == add_node(EmptyGraph, State("S0", FALSE))
        g1 == add_node(g0, State("S1", FALSE))
        g2 == add_node(g1, State("S2", TRUE))
        g3 == add_edge(g2, 0, 1, "a")
        g4 == add_edge(g3, 1, 2, "b")
        g5 == add_edge(g4, 2, 0, "a")
    IN  add_edge(g5, 2, 1, "b")

\* build_even_a_automaton with the 'b' edge of Odd leading to Even
build_even_a_automaton_OddLoop ==
    LET g0 == add_node(EmptyGraph, State("Even", TRUE))
        g1 == add_node(g0, State("Odd", FALSE))
        g2 == add_edge(g1, 0, 1, "a")
        g3 == add_edge(g2, 1, 0, "a")
        g4 == add_edge(g3, 0, 0, "b")
    IN  add_edge(g4, 1, 0, "b")

build_even_a_automaton ==
    LET g0 == add_node(EmptyGraph, State("Even", TRUE))
        g1 == add_node(g0, State("Odd", FALSE))
        g2 == add_edge(g1, 0, 1, "a")
        g3 == add_edge(g2, 1, 0, "a")
        g4 == add_edge(g3, 0, 0, "b")
    IN  add_edge(g4, 1, 1, "b")

\* build_contains_aba_automaton with both edges of S3 labelled 'a'
build_contains_aba_automaton_DupLabel ==
    LET g0 == add_node(EmptyGraph, State("S0", FALSE))
        g1 == add_node(g0, State("S1", FALSE))
        g2 == add_node(g1, State("S2", FALSE))
        g3 == add_node(g2, State("S3", TRUE))
        g4 == add_edge(g3, 0, 1, "a")
        g5 == add_edge(g4, 0, 0, "b")
        g6 == add_edge(g5, 1, 1, "a")
        g7 == add_edge(g6, 1, 2, "b")
        g8 == add_edge(g7, 2, 3, "a")
        g9 == add_edge(g8, 2, 0, "b")
        g10 == add_edge(g9, 3, 3, "a")
    IN  add_edge(g10, 3, 3, "a")

\* build_contains_aba_automaton with the 'a' edge of S1 leading back to S0
build_contains_aba_automaton_Restart ==
    LET g0 == add_node(EmptyGraph, State("S0", FALSE))
        g1 == add_node(g0, State("S1", FALSE))
        g2 == add_node(g1, State("S2", FALSE))
        g3 == add_node(g2, State("S3", TRUE))
        g4 == add_edge(g3, 0, 1, "a")
        g5 == add_edge(g4, 0, 0, "b")
        g6 == add_edge(g5, 1, 0, "a")
        g7 == add_edge(g6, 1, 2, "b")
        g8 == add_edge(g7, 2, 3, "a")
        g9 == add_edge(g8, 2, 0, "b")
        g10 == add_edge(g9, 3, 3, "a")
    IN  add_edge(g10, 3, 3, "b")

build_contains_aba_automaton ==
    LET g0 == add_node(EmptyGraph, State("S0", FALSE))
        g1 == add_node(g0, State("S1", FALSE))
        g2 == add_node(g1, State("S2", FALSE))
        g3 == add_node(g2, State("S3", TRUE))
        g4 == add_edge(g3, 0, 1, "a")
        g5 == add_edge(g4, 0, 0, "b")
        g6 == add_edge(g5, 1, 1, "a")
        g7 == add_edge(g6, 1, 2, "b")
        g8 == add_edge(g7, 2, 3, "a")
        g9 == add_edge(g8, 2, 0, "b")
        g10 == add_edge(g9, 3, 3, "a")
    IN  add_edge(g10, 3, 3, "b")

\* the automata array of main
BuiltAutomata ==
    {build_simple_automaton, build_even_a_automaton, build_contains_aba_automaton}

----------------------------------------------------------------------------
(* The automata and inputs the operations are called with. *)

SeqsUpTo(S, n) == UNION {[1 .. k -> S] : k \in 0 .. n}

\* every DiGraph<State, Transition> over Symbols whose nodes and edges are
\* at most MaxSize together (the empty graph included); add_edge needs both
\* endpoints to exist
CraftedAutomata ==
    UNION {
        {[nodes |-> [i \in 1 .. n |-> State("Q", flags[i])], edges |-> es] :
            flags \in [1 .. n -> BOOLEAN],
            es \in SeqsUpTo({Edge(s, t, c) : s \in 0 .. (n - 1),
                                             t \in 0 .. (n - 1),
                                             c \in Symbols}, MaxSize - n)} :
        n \in 0 .. MaxSize}

Automata == BuiltAutomata \cup CraftedAutomata

Inputs(g) ==
    IF g \in BuiltAutomata THEN SeqsUpTo(Chars, MaxLen)
    ELSE SeqsUpTo(Chars, MaxCraftedLen)

\* the four names of model_check's match, and names outside it
KnownProperties ==
    {"reachable_accepting", "all_states_reachable", "deadlock_free",
     "deterministic"}
OtherProperties ==
    {"", "Deterministic", "DEADLOCK_FREE", "reachable", "deterministic "}
PropertyNames == KnownProperties \cup OtherProperties

----------------------------------------------------------------------------
(* is_accepted *)

\* the inner for loop: position in es of the first edge whose symbol is c,
\* 0 when there is none (found_transition stays false)
RECURSIVE FirstMatchFrom(_, _, _)
FirstMatchFrom(es, c, i) ==
    IF i > Len(es) THEN 0
    ELSE IF es[i].symbol = c THEN i
    ELSE FirstMatchFrom(es, c, i + 1)

\* FirstMatch taking the last matching edge of the enumeration
FirstMatch_Last(es, c) ==
    LET M == {i \in 1 .. Len(es) : es[i].symbol = c}
    IN  IF M = {} THEN 0 ELSE CHOOSE i \in M : \A j \in M : j <= i

FirstMatch(es, c) == FirstMatchFrom(es, c, 1)

\* Locals with current_state kept from the call before (a static)
Locals_KeepState ==
    /\ pos' = 0
    /\ current_state' = current_state
    /\ stack' = <<>>
    /\ discovered' = {}
    /\ reachable' = {}
    /\ visits' = <<>>
    /\ cursor' = 0
    /\ result' = FALSE

\* Locals with is_accepted starting at the last node instead of node 0
Locals_StartAtLast ==
    /\ pos' = 0
    /\ current_state' = IF node_count(automaton) = 0 THEN 0
                        ELSE node_count(automaton) - 1
    /\ stack' = <<>>
    /\ discovered' = {}
    /\ reachable' = {}
    /\ visits' = <<>>
    /\ cursor' = 0
    /\ result' = FALSE

\* the state after the locals of a call are set up
Locals ==
    /\ pos' = 0
    /\ current_state' = 0
    /\ stack' = <<>>
    /\ discovered' = {}
    /\ reachable' = {}
    /\ visits' = <<>>
    /\ cursor' = 0
    /\ result' = FALSE

\* the call  is_accepted(&automaton, s)
CallIsAccepted ==
    /\ pc = "idle"
    /\ \E s \in Inputs(automaton) : input' = s
    /\ op' = "is_accepted"
    /\ pc' = "is_accepted"
    /\ property' = ""
    /\ Locals
    /\ UNCHANGED <<automaton, callerVars>>

\* StepIsAccepted skipping a char without a transition instead of returning
StepIsAccepted_SkipUnmatched ==
    /\ pc = "is_accepted"
    /\ pos < Len(input)
    /\ LET c == input[pos + 1]
           es == edges(automaton, current_state)
           m == FirstMatch(es, c)
       IN  /\ pos' = pos + 1
           /\ current_state' = IF m = 0 THEN current_state ELSE es[m].target
    /\ UNCHANGED callerVars
    /\ UNCHANGED <<automaton, op, pc, property, input, stack, discovered,
                   reachable, visits, cursor, result>>

\* one turn of the outer for loop
StepIsAccepted ==
    /\ pc = "is_accepted"
    /\ pos < Len(input)
    /\ LET c == input[pos + 1]
           es == edges(automaton, current_state)
           m == FirstMatch(es, c)
       IN  /\ pos' = pos + 1
           /\ IF m = 0
              THEN /\ result' = FALSE
                   /\ pc' = "done"
                   /\ UNCHANGED current_state
              ELSE /\ current_state' = es[m].target
                   /\ UNCHANGED <<result, pc>>
    /\ UNCHANGED callerVars
    /\ UNCHANGED <<automaton, op, property, input, stack, discovered, reachable,
                   visits, cursor>>

\* the last line: automaton[current_state].is_accepting
FinishIsAccepted ==
    /\ pc = "is_accepted"
    /\ pos = Len(input)
    /\ IF current_state \in node_indices(automaton)
       THEN /\ result' = NodeWeight(automaton, current_state).is_accepting
            /\ pc' = "done"
       ELSE /\ pc' = "panic"
            /\ UNCHANGED result
    /\ UNCHANGED callerVars
    /\ UNCHANGED <<automaton, op, property, input, pos, current_state, stack,
                   discovered, reachable, visits, cursor>>

----------------------------------------------------------------------------
(* model_check *)

\* MatchArm comparing the names without regard to case and trailing blanks
MatchArm_IgnoreCase(p) ==
    CASE p \in {"deterministic", "Deterministic", "deterministic "} ->
            "deterministic"
      [] p \in {"deadlock_free", "DEADLOCK_FREE"} -> "deadlock_free"
      [] p \in {"reachable_accepting", "all_states_reachable"} -> p
      [] OTHER -> "_"

\* the arm of  match property  that p selects: string patterns match the
\* whole string exactly; "_" is the catch-all arm
MatchArm(p) ==
    IF p \in KnownProperties THEN p ELSE "_"

\* the match on property: set up the arm's traversal, or return false
ModelCheckArm(p) ==
    /\ property' = p
    /\ input' = <<>>
    /\ pos' = 0
    /\ current_state' = 0
    /\ reachable' = {}
    /\ visits' = <<>>
    /\ cursor' = 0
    /\ result' = FALSE
    /\ CASE MatchArm(p) = "reachable_accepting" ->
            \* Dfs::new: an empty visit map, the start node on the stack
            /\ stack' = <<0>>
            /\ discovered' = {}
            /\ pc' = MatchArm(p)
         [] MatchArm(p) = "all_states_reachable" ->
            \* Bfs::new marks the start node in a visit map of node_count
            \* bits: out of bounds on a graph without nodes
            IF 0 \in node_indices(automaton)
            THEN /\ stack' = <<0>>
                 /\ discovered' = {0}
                 /\ pc' = MatchArm(p)
            ELSE /\ stack' = <<>>
                 /\ discovered' = {}
                 /\ pc' = "panic"
         [] MatchArm(p) \in {"deadlock_free", "deterministic"} ->
            /\ stack' = <<>>
            /\ discovered' = {}
            /\ pc' = MatchArm(p)
         [] OTHER ->
            /\ stack' = <<>>
            /\ discovered' = {}
            /\ pc' = "done"
    /\ UNCHANGED automaton

\* the call  model_check(&automaton, p)
CallModelCheck ==
    /\ pc = "idle"
    /\ op' = "model_check"
    /\ \E p \in PropertyNames : ModelCheckArm(p)
    /\ UNCHANGED callerVars

\* DfsPop without the test of the visit map
DfsPop_NoSkip(st, disc) == st

\* Dfs::next's pop loop: drop the nodes on top that are already discovered
RECURSIVE DfsPop(_, _)
DfsPop(st, disc) ==
    IF st = <<>> THEN st
    ELSE IF st[Len(st)] \in disc THEN DfsPop(SubSeq(st, 1, Len(st) - 1), disc)
    ELSE st

\* DfsPush pushing only the first successor
DfsPush_FirstOnly(st, succs, disc) ==
    IF succs = <<>> \/ Head(succs) \in disc THEN st
    ELSE Append(st, Head(succs))

\* Dfs::next's push loop: the successors not yet discovered, in order
RECURSIVE DfsPush(_, _, _)
DfsPush(st, succs, disc) ==
    IF succs = <<>> THEN st
    ELSE DfsPush(IF Head(succs) \in disc THEN st ELSE Append(st, Head(succs)),
                 Tail(succs), disc)

\* the reachable_accepting arm as a function of the graph: the loop over
\* dfs.next from the stack st and the visit map disc
RECURSIVE DfsLoop(_, _, _)
DfsLoop(g, st, disc) ==
    LET rem == DfsPop(st, disc)
    IN  IF rem = <<>> THEN FALSE
        ELSE LET node == rem[Len(rem)]
                 rest == SubSeq(rem, 1, Len(rem) - 1)
             IN  IF NodeWeight(g, node).is_accepting THEN TRUE
                 ELSE DfsLoop(g, DfsPush(rest, neighbors(g, node),
                                         disc \cup {node}),
                              disc \cup {node})

\* model_check(g, "reachable_accepting") on a graph with at least one node
ReachableAccepting(g) == DfsLoop(g, <<0>>, {})

\* one turn of  while let Some(node) = dfs.next(automaton)
DfsNext ==
    /\ pc = "reachable_accepting"
    /\ LET st == DfsPop(stack, discovered)
       IN  IF st = <<>>
           THEN \* next() is None: the loop ends, the arm is false
                /\ stack' = st
                /\ result' = FALSE
                /\ pc' = "done"
                /\ UNCHANGED <<discovered, visits>>
           ELSE LET node == st[Len(st)]
                    rest == SubSeq(st, 1, Len(st) - 1)
                IN  IF node \notin node_indices(automaton)
                    THEN \* discovered.visit(node) is out of the map's bounds
                         /\ pc' = "panic"
                         /\ stack' = rest
                         /\ UNCHANGED <<discovered, visits, result>>
                    ELSE /\ discovered' = discovered \cup {node}
                         /\ stack' = DfsPush(rest, neighbors(automaton, node),
                                             discovered \cup {node})
                         /\ visits' = Append(visits, node)
                         /\ IF NodeWeight(automaton, node).is_accepting
                            THEN /\ result' = TRUE
                                 /\ pc' = "done"
                            ELSE UNCHANGED <<result, pc>>
    /\ UNCHANGED callerVars
    /\ UNCHANGED <<automaton, op, property, input, pos, current_state, reachable,
                   cursor>>

\* BfsPush taking only the first successor
BfsPush_FirstOnly(q, succs, disc) ==
    IF succs = <<>> \/ Head(succs) \in disc THEN <<q, disc>>
    ELSE <<Append(q, Head(succs)), disc \cup {Head(succs)}>>

\* Bfs::next's loop over the successors: each one not yet discovered is
\* marked and pushed at the back; the pair <<queue, discovered>> afterwards
RECURSIVE BfsPush(_, _, _)
BfsPush(q, succs, disc) ==
    IF succs = <<>> THEN <<q, disc>>
    ELSE IF Head(succs) \in disc THEN BfsPush(q, Tail(succs), disc)
    ELSE BfsPush(Append(q, Head(succs)), Tail(succs), disc \cup {Head(succs)})

\* one turn of  while let Some(node) = bfs.next(automaton), and the
\* comparison after the loop
BfsNext ==
    /\ pc = "all_states_reachable"
    /\ IF stack = <<>>
       THEN /\ result' = (Cardinality(reachable) = node_count(automaton))
            /\ pc' = "done"
            /\ UNCHANGED <<stack, discovered, reachable, visits>>
       ELSE LET node == Head(stack)
                nxt == BfsPush(Tail(stack), neighbors(automaton, node),
                               discovered)
            IN  /\ stack' = nxt[1]
                /\ discovered' = nxt[2]
                /\ reachable' = reachable \cup {node}
                /\ visits' = Append(visits, node)
                /\ UNCHANGED <<result, pc>>
    /\ UNCHANGED callerVars
    /\ UNCHANGED <<automaton, op, property, input, pos, current_state, cursor>>

\* OutDegree not counting self-loops
OutDegree_NoSelfLoop(g, node) ==
    Cardinality({i \in 1 .. Len(g.edges) :
                    g.edges[i].source = node /\ g.edges[i].target # node})

\* automaton.edges(node).count()
OutDegree(g, node) == Len(edges(g, node))

\* one turn of the deadlock_free arm's loop over node_indices()
DeadlockFreeStep ==
    /\ pc = "deadlock_free"
    /\ IF cursor < node_count(automaton)
       THEN IF OutDegree(automaton, cursor) = 0
            THEN /\ result' = FALSE
                 /\ pc' = "done"
                 /\ UNCHANGED cursor
            ELSE /\ cursor' = cursor + 1
                 /\ UNCHANGED <<result, pc>>
       ELSE /\ result' = TRUE
            /\ pc' = "done"
            /\ UNCHANGED cursor
    /\ UNCHANGED callerVars
    /\ UNCHANGED <<automaton, op, property, input, pos, current_state, stack,
                   discovered, reachable, visits>>

\* SeenTwice keeping the pairs of symbol and target instead of the symbols
RECURSIVE SeenTwice_ByTarget(_, _)
SeenTwice_ByTarget(es, symbols) ==
    IF es = <<>> THEN FALSE
    ELSE IF <<Head(es).symbol, Head(es).target>> \in symbols THEN TRUE
    ELSE SeenTwice_ByTarget(Tail(es),
            symbols \cup {<<Head(es).symbol, Head(es).target>>})

\* the deterministic arm's inner loop over one node's edges: TRUE when an
\* edge's symbol is already in the set symbols
RECURSIVE SeenTwice(_, _)
SeenTwice(es, symbols) ==
    IF es = <<>> THEN FALSE
    ELSE IF Head(es).symbol \in symbols THEN TRUE
    ELSE SeenTwice(Tail(es), symbols \cup {Head(es).symbol})

\* one turn of the deterministic arm's loop over node_indices()
DeterministicStep ==
    /\ pc = "deterministic"
    /\ IF cursor < node_count(automaton)
       THEN IF SeenTwice(edges(automaton, cursor), {})
            THEN /\ result' = FALSE
                 /\ pc' = "done"
                 /\ UNCHANGED cursor
            ELSE /\ cursor' = cursor + 1
                 /\ UNCHANGED <<result, pc>>
       ELSE /\ result' = TRUE
            /\ pc' = "done"
            /\ UNCHANGED cursor
    /\ UNCHANGED callerVars
    /\ UNCHANGED <<automaton, op, property, input, pos, current_state, stack,
                   discovered, reachable, visits>>

----------------------------------------------------------------------------
(* The caller: builds or is handed an automaton, then calls the operations *)
(* on it one after the other, as main and the ml module do.                *)

\* the call has returned; its locals are gone
Return ==
    /\ pc = "done"
    /\ op' = "none"
    /\ pc' = "idle"
    /\ property' = ""
    /\ input' = <<>>
    /\ Locals
    /\ UNCHANGED <<automaton, callerVars>>

Init ==
    /\ automaton \in Automata
    /\ op = "none"
    /\ pc = "idle"
    /\ property = ""
    /\ input = <<>>
    /\ pos = 0
    /\ current_state = 0
    /\ stack = <<>>
    /\ discovered = {}
    /\ reachable = {}
    /\ visits = <<>>
    /\ cursor = 0
    /\ result = FALSE
    /\ main_pc = "caller"
    /\ index = 0
    /\ count = 0
    /\ files = <<>>
    /\ io = "none"
    /\ exported = "none"
    /\ main_result = "none"
    /\ ran = {}

Next ==
    \/ CallIsAccepted
    \/ StepIsAccepted
    \/ FinishIsAccepted
    \/ CallModelCheck
    \/ DfsNext
    \/ BfsNext
    \/ DeadlockFreeStep
    \/ DeterministicStep
    \/ Return

Spec == Init /\ [][Next]_vars

\* a step of the operation that is running
Running ==
    \/ StepIsAccepted
    \/ FinishIsAccepted
    \/ DfsNext
    \/ BfsNext
    \/ DeadlockFreeStep
    \/ DeterministicStep

\* Spec with the operations running to their end: is_accepted and
\* model_check are synchronous, single-threaded calls, so a call that has
\* started keeps taking its steps; the caller is free to make no further call
FairSpec == Init /\ [][Next]_vars /\ WF_vars(Running)

----------------------------------------------------------------------------
(* The operations as functions of their arguments: the same loops, run to  *)
(* their end on a graph with at least one node.                            *)

\* is_accepted's loop from the state `state` on the rest s of the input
RECURSIVE IsAcceptedFrom(_, _, _)
IsAcceptedFrom(g, s, state) ==
    IF s = <<>> THEN NodeWeight(g, state).is_accepting
    ELSE LET es == edges(g, state)
             m == FirstMatch(es, Head(s))
         IN  IF m = 0 THEN FALSE
             ELSE IsAcceptedFrom(g, Tail(s), es[m].target)

is_accepted(g, s) == IsAcceptedFrom(g, s, 0)

\* the all_states_reachable arm's loop over bfs.next from the queue q: the
\* set reachable when the loop ends
RECURSIVE BfsLoop(_, _, _, _)
BfsLoop(g, q, disc, reach) ==
    IF q = <<>> THEN reach
    ELSE LET node == Head(q)
             nxt == BfsPush(Tail(q), neighbors(g, node), disc)
         IN  BfsLoop(g, nxt[1], nxt[2], reach \cup {node})

model_check(g, p) ==
    CASE MatchArm(p) = "reachable_accepting" -> ReachableAccepting(g)
      [] MatchArm(p) = "all_states_reachable" ->
            Cardinality(BfsLoop(g, <<0>>, {0}, {})) = node_count(g)
      [] MatchArm(p) = "deadlock_free" ->
            \A node \in node_indices(g) : OutDegree(g, node) # 0
      [] MatchArm(p) = "deterministic" ->
            \A node \in node_indices(g) : ~SeenTwice(edges(g, node), {})
      [] OTHER -> FALSE

----------------------------------------------------------------------------
(* A caller that makes call after call on one of main's automata, as the   *)
(* loops of main and of the ml module do.                                  *)

\* main's array automata: (name, automaton)
automata ==
    << <<"Simple", build_simple_automaton>>,
       <<"Even A's", build_even_a_automaton>>,
       <<"Contains ABA", build_contains_aba_automaton>> >>

\* calls counted on one automaton (the count stays at MaxCalls from there on)
MaxCalls == 2

\* the call has returned and the caller counts it
ReturnCounted ==
    /\ pc = "done"
    /\ op' = "none"
    /\ pc' = "idle"
    /\ property' = ""
    /\ input' = <<>>
    /\ Locals
    /\ count' = IF count < MaxCalls THEN count + 1 ELSE count
    /\ UNCHANGED <<automaton, main_pc, index, files, io, exported,
                   main_result, ran>>

\* the caller holds a freshly built automaton, automata[index]
SequenceInit ==
    /\ index \in 0 .. Len(automata) - 1
    /\ automaton = automata[index + 1][2]
    /\ op = "none"
    /\ pc = "idle"
    /\ property = ""
    /\ input = <<>>
    /\ pos = 0
    /\ current_state = 0
    /\ stack = <<>>
    /\ discovered = {}
    /\ reachable = {}
    /\ visits = <<>>
    /\ cursor = 0
    /\ result = FALSE
    /\ main_pc = "caller"
    /\ count = 0
    /\ files = <<>>
    /\ io = "none"
    /\ exported = "none"
    /\ main_result = "none"
    /\ ran = {}

SequenceNext ==
    \/ CallIsAccepted
    \/ StepIsAccepted
    \/ FinishIsAccepted
    \/ CallModelCheck
    \/ DfsNext
    \/ BfsNext
    \/ DeadlockFreeStep
    \/ DeterministicStep
    \/ ReturnCounted

SequenceSpec == SequenceInit /\ [][SequenceNext]_vars

----------------------------------------------------------------------------
(* The diagram exporter visualize_automaton and main.                      *)

\* one line of the DOT text per node: index, label, shape
NodeLine(g, node) ==
    <<"node", node, NodeWeight(g, node).name,
      IF NodeWeight(g, node).is_accepting THEN "doublecircle" ELSE "circle">>

\* one line of the DOT text per edge: source -> target, label
EdgeLine(e) == <<"edge", e.source, e.target, e.symbol>>

\* the text visualize_automaton builds, as its sequence of lines: the
\* header, the nodes in node_indices() order, the edges in
\* edge_references() order (both insertion order), the closing brace
dot_string(g) ==
    << <<"digraph {">> >>
    \o [i \in 1 .. node_count(g) |-> NodeLine(g, i - 1)]
    \o [i \in 1 .. Len(g.edges) |-> EdgeLine(g.edges[i])]
    \o << <<"}">> >>

\* the file system fs with the file `filename` holding `content`
WriteFile(fs, filename, content) ==
    [f \in DOMAIN fs \cup {filename} |->
        IF f = filename THEN content ELSE fs[f]]

\* visualize_automaton swallowing a failed write
visualize_automaton_Swallow(g, filename, fs, outcome, written) ==
    CASE outcome = "create_failed" -> <<fs, "Err">>
      [] outcome = "write_failed" ->
            <<WriteFile(fs, filename, SubSeq(dot_string(g), 1, written)), "Ok">>
      [] outcome = "ok" -> <<WriteFile(fs, filename, dot_string(g)), "Ok">>

\* visualize_automaton(g, filename) on the file system fs, where the file
\* operations end as `outcome` says: File::create fails (nothing is
\* written), write_all fails after `written` lines (fewer than all of them)
\* went out, or both succeed.  The pair <<file system afterwards, return>>
visualize_automaton(g, filename, fs, outcome, written) ==
    CASE outcome = "create_failed" -> <<fs, "Err">>
      [] outcome = "write_failed" ->
            <<WriteFile(fs, filename, SubSeq(dot_string(g), 1, written)), "Err">>
      [] outcome = "ok" -> <<WriteFile(fs, filename, dot_string(g)), "Ok">>

IoOutcomes == {"create_failed", "write_failed", "ok"}

\* main's array properties
properties ==
    <<"reachable_accepting", "all_states_reachable", "deadlock_free",
      "deterministic">>

\* format!("{}_automaton.dot", name.to_lowercase().replace(" ", "_")) on
\* the names of main's automata
dot_filename(name) ==
    CASE name = "Simple" -> "simple_automaton.dot"
      [] name = "Even A's" -> "even_a's_automaton.dot"
      [] name = "Contains ABA" -> "contains_aba_automaton.dot"

\* samples taken in each of the sampling loops of the ml module (the
\* source takes 1000, 500 and 200)
MaxSamples == 2
\* generate_training_data(automaton, 1000, 5) and evaluate_model(.., 500, 5)
SampleLength == 5
\* evaluate_model_by_length(.., 200, 1, 10)
MinLength == 1
MaxLength == 10

\* generate_random_string(length): any string of that length over a, b
generate_random_string(length) == [1 .. length -> Symbols]

\* main line 56: visualize_automaton(automaton, &dot_filename)?  The file
\* operations end in any of the ways they can; an Err is returned by main
MainVisualize ==
    /\ main_pc = "visualize"
    /\ \E outcome \in IoOutcomes,
          written \in 0 .. Len(dot_string(automaton)) - 1 :
          LET r == visualize_automaton(automaton,
                        dot_filename(automata[index + 1][1]), files,
                        outcome, written)
          IN  /\ files' = r[1]
              /\ exported' = r[2]
              /\ io' = outcome
              /\ IF r[2] = "Err"
                 THEN /\ main_pc' = "returned"
                      /\ main_result' = "Err"
                 ELSE /\ main_pc' = "model_checking"
                      /\ UNCHANGED main_result
    /\ UNCHANGED <<automaton, op, pc, property, input, pos, current_state,
                   stack, discovered, reachable, visits, cursor, result,
                   index, count, ran>>

\* main lines 60-61: the loop over properties calls model_check
MainModelCheck ==
    /\ main_pc = "model_checking"
    /\ pc = "idle"
    /\ count < Len(properties)
    /\ op' = "model_check"
    /\ ModelCheckArm(properties[count + 1])
    /\ ran' = ran \cup {<<index, "model_checking">>}
    /\ UNCHANGED <<main_pc, index, count, files, io, exported, main_result>>

\* main line 66: generate_training_data's loop labels a random string
GenerateTrainingData ==
    /\ main_pc = "training"
    /\ pc = "idle"
    /\ count < MaxSamples
    /\ \E string \in generate_random_string(SampleLength) : input' = string
    /\ op' = "is_accepted"
    /\ pc' = "is_accepted"
    /\ property' = ""
    /\ Locals
    /\ ran' = ran \cup {<<index, "training">>}
    /\ UNCHANGED <<automaton, main_pc, index, count, files, io, exported,
                   main_result>>

\* main lines 70-94: evaluate_model's loop, called with length 5 and by
\* evaluate_model_by_length with every length from 1 to 10
EvaluateModel ==
    /\ main_pc = "evaluating"
    /\ pc = "idle"
    /\ count < MaxSamples
    /\ \E length \in {SampleLength} \cup (MinLength .. MaxLength) :
          \E string \in generate_random_string(length) : input' = string
    /\ op' = "is_accepted"
    /\ pc' = "is_accepted"
    /\ property' = ""
    /\ Locals
    /\ ran' = ran \cup {<<index, "evaluating">>}
    /\ UNCHANGED <<automaton, main_pc, index, count, files, io, exported,
                   main_result>>

\* a call returns to main: the loop it was made in goes on, or ends and
\* main moves to its next phase, to the next automaton, or to Ok(())
MainReturn ==
    /\ main_pc \in {"model_checking", "training", "evaluating"}
    /\ pc = "done"
    /\ op' = "none"
    /\ pc' = "idle"
    /\ property' = ""
    /\ input' = <<>>
    /\ Locals
    /\ LET turns == IF main_pc = "model_checking" THEN Len(properties)
                    ELSE MaxSamples
       IN  IF count + 1 < turns
           THEN /\ count' = count + 1
                /\ UNCHANGED <<automaton, main_pc, index, io, exported,
                               main_result>>
           ELSE /\ count' = 0
                /\ CASE main_pc = "model_checking" ->
                        /\ main_pc' = "training"
                        /\ UNCHANGED <<automaton, index, io, exported,
                                       main_result>>
                     [] main_pc = "training" ->
                        /\ main_pc' = "evaluating"
                        /\ UNCHANGED <<automaton, index, io, exported,
                                       main_result>>
                     [] main_pc = "evaluating" ->
                        /\ index' = index + 1
                        /\ io' = "none"
                        /\ exported' = "none"
                        /\ IF index + 1 < Len(automata)
                           THEN /\ automaton' = automata[index + 2][2]
                                /\ main_pc' = "visualize"
                                /\ UNCHANGED main_result
                           ELSE /\ main_pc' = "returned"
                                /\ main_result' = "Ok"
                                /\ UNCHANGED automaton
    /\ UNCHANGED <<files, ran>>

\* main at the top of its loop over automata, no file written yet
MainInit ==
    /\ index = 0
    /\ automaton = automata[1][2]
    /\ main_pc = "visualize"
    /\ count = 0
    /\ files = <<>>
    /\ io = "none"
    /\ exported = "none"
    /\ main_result = "none"
    /\ ran = {}
    /\ op = "none"
    /\ pc = "idle"
    /\ property = ""
    /\ input = <<>>
    /\ pos = 0
    /\ current_state = 0
    /\ stack = <<>>
    /\ discovered = {}
    /\ reachable = {}
    /\ visits = <<>>
    /\ cursor = 0
    /\ result = FALSE

MainNext ==
    \/ MainVisualize
    \/ MainModelCheck
    \/ GenerateTrainingData
    \/ EvaluateModel
    \/ StepIsAccepted
    \/ FinishIsAccepted
    \/ DfsNext
    \/ BfsNext
    \/ DeadlockFreeStep
    \/ DeterministicStep
    \/ MainReturn

MainSpec == MainInit /\ [][MainNext]_vars

----------------------------------------------------------------------------
(* Properties. *)

\* is_accepted / model_check has returned
AcceptedDone == op = "is_accepted" /\ pc = "done"
CheckedDone(p) == op = "model_check" /\ pc = "done" /\ property = p

\* number of occurrences of c in s
RECURSIVE Count(_, _)
Count(s, c) ==
    IF s = <<>> THEN 0
    ELSE (IF Head(s) = c THEN 1 ELSE 0) + Count(Tail(s), c)

\* s contains w as a contiguous substring
Contains(s, w) ==
    \E i \in 1 .. (Len(s) - Len(w) + 1) : SubSeq(s, i, i + Len(w) - 1) = w

\* every char of s is one of the two symbols
OverSymbols(s) == \A i \in 1 .. Len(s) : s[i] \in Symbols

\* C1 as stated: on the even-a automaton, every input string whatever its
\* chars is accepted iff its number of 'a' is even.
C1_AnyString ==
    (AcceptedDone /\ automaton = build_even_a_automaton)
        => (result <=> Count(input, "a") % 2 = 0)

\* C1 amended: on the even-a automaton, an input string is accepted iff it
\* consists only of 'a' and 'b' and its number of 'a' is even (whatever its
\* length and its trailing 'b's); a string holding another char is rejected.
C1_EvenA ==
    (AcceptedDone /\ automaton = build_even_a_automaton)
        => (result <=> (OverSymbols(input) /\ Count(input, "a") % 2 = 0))

C1_Witness ==
    /\ AcceptedDone
    /\ automaton = build_even_a_automaton
    /\ input = <<"a", "b", "a", "b", "b">>
    /\ result

\* C2 as stated: on the contains-aba automaton, every input string whatever
\* its chars is accepted iff it contains "aba" as a contiguous substring.
C2_AnyString ==
    (AcceptedDone /\ automaton = build_contains_aba_automaton)
        => (result <=> Contains(input, <<"a", "b", "a">>))

\* C2 amended: on the contains-aba automaton, an input string is accepted iff
\* it consists only of 'a' and 'b' and contains "aba" as a contiguous
\* substring; a string holding another char is rejected.
C2_ContainsAba ==
    (AcceptedDone /\ automaton = build_contains_aba_automaton)
        => (result <=> (OverSymbols(input)
                        /\ Contains(input, <<"a", "b", "a">>)))

C2_Witness ==
    /\ AcceptedDone
    /\ automaton = build_contains_aba_automaton
    /\ input = <<"a", "a", "b", "a", "b">>
    /\ result

\* C3: on each of the three built automata, is_accepted of the empty input
\* returns the accepting flag of node 0.
C3_EmptyInput ==
    (AcceptedDone /\ automaton \in BuiltAutomata /\ input = <<>>)
        => result = NodeWeight(automaton, 0).is_accepting

C3_Witness ==
    /\ AcceptedDone
    /\ automaton = build_even_a_automaton
    /\ input = <<>>
    /\ result
    /\ pos = 0

\* is_accepted is about to take a char that no edge leaving current_state
\* carries
NoTransition ==
    /\ pc = "is_accepted"
    /\ pos < Len(input)
    /\ \A i \in 1 .. Len(automaton.edges) :
        ~(/\ automaton.edges[i].source = current_state
          /\ automaton.edges[i].symbol = input[pos + 1])

\* some edge of g carries c
InAlphabet(g, c) == \E i \in 1 .. Len(g.edges) : g.edges[i].symbol = c

\* C4: when the current state has no outgoing transition for the current
\* char, is_accepted returns false at once, taking no later char, whatever
\* the rest of the input is; so an input holding a char that no edge of the
\* automaton carries is rejected, no later than at that char.
C4_ShortCircuit ==
    /\ [][NoTransition
            => (pc' = "done" /\ ~result' /\ pos' = pos + 1
                /\ current_state' = current_state)]_vars
    /\ [][pc = "done" => (pc' = "idle" /\ op' = "none")]_vars
    /\ [](AcceptedDone
            => \A i \in 1 .. Len(input) :
                 ~InAlphabet(automaton, input[i]) => (~result /\ pos <= i))

C4_Witness ==
    /\ AcceptedDone
    /\ automaton = build_contains_aba_automaton
    /\ input = <<"x", "a", "b", "a">>
    /\ ~result
    /\ pos = 1
    /\ current_state = 0

\* the nodes of g reachable from node 0 along directed edges (node 0
\* included), as the least set closed under the edges
RECURSIVE ReachFrom(_, _)
ReachFrom(g, S) ==
    LET T == S \cup {g.edges[i].target :
                        i \in {j \in 1 .. Len(g.edges) : g.edges[j].source \in S}}
    IN  IF T = S THEN S ELSE ReachFrom(g, T)

Reach(g) == ReachFrom(g, {0})

Accepting(g) == {n \in node_indices(g) : NodeWeight(g, n).is_accepting}

\* C5: on an automaton with at least one node, reachable_accepting returns
\* true iff an accepting state (node 0 included) is reachable from node 0;
\* when it returns true the traversal has stopped at the first accepting
\* state it visited, and when it returns false it has visited every
\* reachable node.
C5_ReachableAccepting ==
    (CheckedDone("reachable_accepting") /\ node_count(automaton) >= 1)
        => /\ result <=> (Reach(automaton) \cap Accepting(automaton) # {})
           /\ result =>
                /\ visits # <<>>
                /\ visits[Len(visits)] \in Accepting(automaton)
                /\ \A i \in 1 .. (Len(visits) - 1) :
                     visits[i] \notin Accepting(automaton)
           /\ ~result => {visits[i] : i \in 1 .. Len(visits)} = Reach(automaton)

C5_Witness ==
    /\ CheckedDone("reachable_accepting")
    /\ automaton = build_contains_aba_automaton
    /\ result
    /\ Len(visits) = 4

\* C6: on an automaton with at least one node, all_states_reachable returns
\* true iff every node is reachable from node 0; the set of nodes the
\* breadth-first traversal visited is the set of reachable nodes, and the
\* result compares its size with the node count.
C6_AllStatesReachable ==
    (CheckedDone("all_states_reachable") /\ node_count(automaton) >= 1)
        => /\ result <=> (Reach(automaton) = node_indices(automaton))
           /\ reachable = Reach(automaton)
           /\ result <=> (Cardinality(reachable) = node_count(automaton))

C6_Witness ==
    /\ CheckedDone("all_states_reachable")
    /\ node_count(automaton) = 3
    /\ Reach(automaton) = {0, 2}
    /\ ~result

\* node n of g has an outgoing transition (a self-loop is one)
HasOutgoing(g, n) == \E i \in 1 .. Len(g.edges) : g.edges[i].source = n

\* C7: deadlock_free returns true iff every state, reachable from node 0 or
\* not, has at least one outgoing transition, a self-loop counting as one.
C7_DeadlockFree ==
    CheckedDone("deadlock_free")
        => (result <=> \A n \in node_indices(automaton) :
                          HasOutgoing(automaton, n))

\* false because of a state that is not reachable and has no transition,
\* while every reachable state has one
C7_Witness ==
    /\ CheckedDone("deadlock_free")
    /\ ~result
    /\ \A n \in Reach(automaton) : HasOutgoing(automaton, n)
    /\ \E n \in node_indices(automaton) \ Reach(automaton) :
         ~HasOutgoing(automaton, n)

\* two different edges of g leave the same state with the same symbol
DuplicateSymbol(g) ==
    \E i, j \in 1 .. Len(g.edges) :
        /\ i < j
        /\ g.edges[i].source = g.edges[j].source
        /\ g.edges[i].symbol = g.edges[j].symbol

\* C8: deterministic returns true iff no state, reachable from node 0 or
\* not, has two or more outgoing transitions with the same symbol, also
\* when the two lead to the same target.
C8_Deterministic ==
    CheckedDone("deterministic") => (result <=> ~DuplicateSymbol(automaton))

\* the crafted automaton: two 'a' edges leaving one state, to two targets
C8_Witness ==
    /\ CheckedDone("deterministic")
    /\ ~result
    /\ \E i, j \in 1 .. Len(automaton.edges) :
        /\ i < j
        /\ automaton.edges[i].source = automaton.edges[j].source
        /\ automaton.edges[i].symbol = "a"
        /\ automaton.edges[j].symbol = "a"
        /\ automaton.edges[i].target # automaton.edges[j].target

\* C9: model_check with a property name other than the four known names
\* (the empty string, a name differing in case) runs no arm and no
\* traversal, does not panic, and returns false.
C9_UnknownProperty ==
    (op = "model_check" /\ property \notin KnownProperties)
        => /\ pc = "done"
           /\ ~result
           /\ visits = <<>>
           /\ cursor = 0

\* a name differing only in case, on an automaton that is deterministic
C9_Witness ==
    /\ op = "model_check"
    /\ pc = "done"
    /\ property = "Deterministic"
    /\ automaton = build_even_a_automaton
    /\ ~DuplicateSymbol(automaton)
    /\ ~result

\* the display name of is_accepted's current state
CurrentName == NodeWeight(automaton, current_state).name

\* C10: on the simple automaton, is_accepted of "ab" walks S0, S1, S2 and
\* returns true, S2 being accepting; is_accepted of "aa" goes from S0 to S1
\* on the first 'a', finds no 'a' edge leaving S1 and returns false.
C10_SimpleScenario ==
    (op = "is_accepted" /\ automaton = build_simple_automaton)
        => /\ input = <<"a", "b">> =>
                /\ pos = 0 => CurrentName = "S0"
                /\ pos = 1 => CurrentName = "S1"
                /\ pos = 2 => CurrentName = "S2"
                /\ pc = "done" =>
                     /\ result
                     /\ pos = 2
                     /\ NodeWeight(automaton, current_state).is_accepting
           /\ input = <<"a", "a">> =>
                /\ pos = 0 => CurrentName = "S0"
                /\ pos >= 1 => CurrentName = "S1"
                /\ pos = 1 => (pc = "is_accepted" /\ NoTransition)
                /\ pos = 2 => (pc = "done" /\ ~result)

C10_Witness ==
    /\ AcceptedDone
    /\ automaton = build_simple_automaton
    /\ input = <<"a", "b">>
    /\ CurrentName = "S2"
    /\ result

\* C11: all_states_reachable returns true on each of the three built
\* automata: the traversal has collected every node of the automaton.
C11_BuiltAllReachable ==
    (CheckedDone("all_states_reachable") /\ automaton \in BuiltAutomata)
        => /\ result
           /\ reachable = node_indices(automaton)

C11_Witness ==
    /\ CheckedDone("all_states_reachable")
    /\ automaton = build_contains_aba_automaton
    /\ Len(visits) = 4
    /\ result

\* C12: deadlock_free returns true on each of the three built automata,
\* after the loop has passed every node.
C12_BuiltDeadlockFree ==
    (CheckedDone("deadlock_free") /\ automaton \in BuiltAutomata)
        => /\ result
           /\ cursor = node_count(automaton)

C12_Witness ==
    /\ CheckedDone("deadlock_free")
    /\ automaton = build_contains_aba_automaton
    /\ cursor = 4
    /\ result

\* C13: deterministic returns true on each of the three built automata,
\* after the loop has passed every node.
C13_BuiltDeterministic ==
    (CheckedDone("deterministic") /\ automaton \in BuiltAutomata)
        => /\ result
           /\ cursor = node_count(automaton)

C13_Witness ==
    /\ CheckedDone("deterministic")
    /\ automaton = build_simple_automaton
    /\ cursor = 3
    /\ result

\* the states in which some path from a state of S with the labels s ends
RECURSIVE NfaStates(_, _, _)
NfaStates(g, S, s) ==
    IF s = <<>> THEN S
    ELSE NfaStates(g,
            {g.edges[i].target :
                i \in {j \in 1 .. Len(g.edges) :
                          g.edges[j].source \in S /\ g.edges[j].symbol = Head(s)}},
            Tail(s))

\* some directed path from node 0 whose labels spell s ends in an accepting
\* state
PathAccepts(g, s) ==
    /\ node_count(g) >= 1
    /\ NfaStates(g, {0}, s) \cap Accepting(g) # {}

\* C17: is_accepted follows one path and never backtracks: it starts at
\* node 0, and for each char it moves to the target of the first edge, in
\* the enumeration order of the current state's outgoing edges, that carries
\* the char, or returns false when there is none; the last step takes no
\* char and moves nowhere.  (On a non-deterministic automaton a string is
\* then rejected although another path accepts it: the witness.)
C17_SinglePath ==
    /\ [](op = "is_accepted" /\ pos = 0 => current_state = 0)
    /\ [][(pc = "is_accepted" /\ pos < Len(input))
            => LET es == edges(automaton, current_state)
                   M == {i \in 1 .. Len(es) : es[i].symbol = input[pos + 1]}
               IN  /\ pos' = pos + 1
                   /\ IF M = {}
                      THEN pc' = "done" /\ ~result'
                           /\ current_state' = current_state
                      ELSE /\ pc' = "is_accepted"
                           /\ current_state' =
                                es[CHOOSE i \in M : \A j \in M : i <= j].target]_vars
    /\ [][(pc = "is_accepted" /\ pos = Len(input))
            => (pos' = pos /\ current_state' = current_state)]_vars

C17_Witness ==
    /\ AcceptedDone
    /\ ~result
    /\ pos = Len(input)
    /\ PathAccepts(automaton, input)

C19_AcceptedImpliesReachable ==
    /\ (op = "is_accepted" /\ node_count(automaton) >= 1)
            => current_state \in Reach(automaton)
    /\ (AcceptedDone /\ result) => ReachableAccepting(automaton)
    /\ (CheckedDone("reachable_accepting") /\ node_count(automaton) >= 1)
            => (result <=> ReachableAccepting(automaton))

C19_Witness ==
    /\ AcceptedDone
    /\ automaton \in CraftedAutomata
    /\ result
    /\ current_state # 0
    /\ ReachableAccepting(automaton)

\* no node occurs twice in the sequence s
NoRepeat(s) == \A i, j \in 1 .. Len(s) : i # j => s[i] # s[j]

\* C14: on an automaton with at least one node every operation that was
\* called returns a boolean: the two traversals return no node twice and so
\* make at most node-count visits, is_accepted takes at most len(input)
\* chars, nothing panics, and no call runs forever: again and again the
\* call made last has returned (a running call can only end in its return).
C14_Termination ==
    /\ [](NoRepeat(visits) /\ Len(visits) <= node_count(automaton))
    /\ [](pos <= Len(input))
    /\ [](node_count(automaton) >= 1 => pc # "panic")
    /\ [](pc = "done" => result \in BOOLEAN)
    /\ []<>(pc \in {"idle", "done", "panic"})

\* a traversal of a cyclic automaton with a self-loop that has returned
\* after visiting every node once
C14_Witness ==
    /\ CheckedDone("all_states_reachable")
    /\ automaton = build_contains_aba_automaton
    /\ Len(visits) = node_count(automaton)
    /\ stack = <<>>


\* C15: is_accepted and model_check leave the automaton as it was built and
\* keep no state from call to call: under any sequence of calls on one of
\* main's automata, in any order, the automaton stays equal to what its
\* builder returns, and every call, the first one and every later one,
\* returns what the operation returns on the freshly built automaton.
C15_NoHiddenState ==
    LET fresh == automata[index + 1][2]
    IN  /\ automaton = fresh
        /\ AcceptedDone => result = is_accepted(fresh, input)
        /\ op = "model_check" /\ pc = "done"
              => result = model_check(fresh, property)

\* a third call on the contains-aba automaton that accepts
C15_Witness ==
    /\ AcceptedDone
    /\ count = MaxCalls
    /\ automaton = build_contains_aba_automaton
    /\ input = <<"b", "a", "b", "a">>
    /\ result = TRUE

\* the file main exports the automaton at `index` to
DotFile == dot_filename(automata[index + 1][1])

\* C16: a failure to create or to write the destination file comes back
\* from visualize_automaton as Err, and Ok comes back only with the whole
\* diagram text in the file; main returns that Err as its own result, with
\* no model checking, training or evaluation started for the automaton
\* whose export failed or for a later one, and nothing runs after main has
\* returned.
C16_ExportFailure ==
    /\ [](io \in {"create_failed", "write_failed"} => exported = "Err")
    /\ [](exported = "Ok" => /\ DotFile \in DOMAIN files
                             /\ files[DotFile] = dot_string(automaton))
    /\ [](exported = "Err" => main_pc = "returned" /\ main_result = "Err")
    /\ [](main_result = "Err" => /\ op = "none"
                                 /\ pc = "idle"
                                 /\ \A r \in ran : r[1] < index)
    /\ [](\A r \in ran : /\ r[1] <= index
                         /\ dot_filename(automata[r[1] + 1][1]) \in DOMAIN files
                         /\ files[dot_filename(automata[r[1] + 1][1])]
                                = dot_string(automata[r[1] + 1][2]))
    /\ [][main_pc # "returned"]_vars

\* the export of the second automaton fails in write_all after three lines,
\* the first automaton having been exported, checked, and used for training
C16_Witness ==
    /\ main_result = "Err"
    /\ io = "write_failed"
    /\ index = 1
    /\ DotFile \in DOMAIN files
    /\ Len(files[DotFile]) = 3
    /\ <<0, "evaluating">> \in ran

============================================================================
